---- MODULE Spec2Model ----
(***************************************************************************)
(* resolve2edl: the run of Resolve.__init__ (src/resolve2edl.py) as a      *)
(* state machine.  One action per pipeline stage, in the order of          *)
(* __init__; the two csv files are the input, fixed at Init.               *)
(*                                                                         *)
(* Text that the program inspects character by character (Name, File Name, *)
(* V, Record In, Record Out) is a sequence of one-character strings;       *)
(* text it only compares for equality (Take/Source and the other media     *)
(* columns) is a TLA+ string.  A null cell (pandas NaN) is the string      *)
(* "NaN", resp. the one-element sequence <<"NaN">>: read_csv reads the     *)
(* text NaN as a null, and no text has a three-letter character, so        *)
(* neither encoding hides a real value.                                    *)
(***************************************************************************)
EXTENDS Integers, Sequences, FiniteSets, TLC

(***************************************************************************)
(* Bounds of the model: the number of rows of each csv file.               *)
(***************************************************************************)
MaxEdit == 2
MaxMedia == 2

(***************************************************************************)
(* Text helpers.                                                           *)
(***************************************************************************)
NaN == "NaN"
NaNText == <<"NaN">>

Digits == {"0", "1", "2", "3", "4", "5", "6", "7", "8", "9"}

\* Python's int() on one decimal digit.
DigitVal(c) ==
    CASE c = "0" -> 0 [] c = "1" -> 1 [] c = "2" -> 2 [] c = "3" -> 3
      [] c = "4" -> 4 [] c = "5" -> 5 [] c = "6" -> 6 [] c = "7" -> 7
      [] c = "8" -> 8 [] c = "9" -> 9

\* The code point of a character of a Record In cell: the order of Python's
\* str comparison, which sort_values uses on the column.
Ord(c) ==
    CASE c \in Digits -> 48 + DigitVal(c)
      [] c = "." -> 46
      [] c = ":" -> 58
      [] c = ";" -> 59
      [] c = "x" -> 120
      [] OTHER -> 127

\* a < b for two str values.
RECURSIVE StrLess(_, _)
StrLess(a, b) ==
    IF b = << >> THEN FALSE
    ELSE IF a = << >> THEN TRUE
    ELSE IF Ord(Head(a)) # Ord(Head(b)) THEN Ord(Head(a)) < Ord(Head(b))
    ELSE StrLess(Tail(a), Tail(b))

\* str.rfind(c), 1-based; 0 when c does not occur (Python's -1).
RFind(s, c) ==
    LET hits == {i \in 1..Len(s) : s[i] = c}
    IN  IF hits = {} THEN 0 ELSE CHOOSE i \in hits : \A j \in hits : j <= i

\* The characters of s other than c: str.replace(c, '', regex=False).
RECURSIVE Remove(_, _)
Remove(s, c) ==
    IF s = << >> THEN << >>
    ELSE IF Head(s) = c THEN Remove(Tail(s), c)
    ELSE <<Head(s)>> \o Remove(Tail(s), c)

\* posixpath.splitext: the extension starts at the last dot that follows the
\* last separator, unless only dots precede it in the file name.
splitext(p) ==
    LET sepIndex == RFind(p, "/")
        dotIndex == RFind(p, ".")
    IN  IF dotIndex > sepIndex
             /\ \E k \in (sepIndex + 1)..(dotIndex - 1) : p[k] # "."
        THEN <<SubSeq(p, 1, dotIndex - 1), SubSeq(p, dotIndex, Len(p))>>
        ELSE <<p, << >> >>

\* re.search of the pattern '|'.join(pats) in s.  No entry of the lists of
\* this program holds a regex metacharacter, so each alternative matches
\* itself, at any offset, case-sensitively.
MatchAt(s, i, p) ==
    /\ i + Len(p) - 1 <= Len(s)
    /\ SubSeq(s, i, i + Len(p) - 1) = p

str_contains(s, pats) ==
    \E i \in 1..Len(s) : \E k \in 1..Len(pats) : MatchAt(s, i, pats[k])

\* Series.isin(values).
isin(v, values) == \E k \in 1..Len(values) : values[k] = v

(***************************************************************************)
(* The module-level lists.                                                 *)
(***************************************************************************)
EDIT_COLUMNS_TO_KEEP ==
    {"Name", "Source In", "Source Out", "Record In", "Record Out", "V"}

EDIT_ROWS_TO_IGNORE == <<
    <<"F", "u", "s", "i", "o", "n", " ", "T", "i", "t", "l", "e">>,
    <<"C", "r", "o", "s", "s", " ", "F", "a", "d", "e", " ", "0", " ", "d", "B">>,
    <<"C", "r", "o", "s", "s", " ", "D", "i", "s", "s", "o", "l", "v", "e">>,
    <<"A", "u", "d", "i", "o", " ", "P", "r", "o", "c", "e", "s", "s", " ",
      "S", "t", "r", "e", "a", "m">>,
    <<"A", "d", "j", "u", "s", "t", "m", "e", "n", "t", " ", "C", "l", "i", "p">>,
    <<"D", "i", "p", " ", "T", "o", " ", "C", "o", "l", "o", "r", " ",
      "D", "i", "s", "s", "o", "l", "v", "e">>,
    <<"S", "o", "l", "i", "d", " ", "C", "o", "l", "o", "r">> >>

EDIT_TRACKS_TO_EXCLUDE == <<
    <<"V", "5">>, <<"V", "6">>, <<"V", "7">>, <<"V", "8">>, <<"V", "9">>,
    <<"V", "1", "0">>, <<"V", "1", "1">>, <<"V", "1", "2">> >>

MEDIA_COLUMNS_TO_KEEP ==
    {"File Name", "Take", "Camera #", "Scene", "Comments", "Keywords"}

MEDIA_SOURCES_TO_IGNORE == <<
    "Sound FX Tal", "Tournage", "Musique BibliothÃ¨que", "Musique Tal",
    "Musique sous droits" >>

\* Resolve.__init__'s fps argument; the script's one run leaves the default.
fps == 25

\* self.output_filename + '.xlsx' and self.output_filename +
\* self.null_source_suffix + '.xlsx' of the run at the end of the script.
PrimaryFile == "edl.xlsx"
NoSourceFile == "edl-no-source.xlsx"

(***************************************************************************)
(* The timecode package, as far as get_tc_delta and show_info use it:      *)
(* Timecode(fps, text) and the difference of two Timecodes.                *)
(***************************************************************************)
\* str.split(':') after ';' and '.' were replaced by ':' (parse_timecode).
RECURSIVE SplitTC(_)
SplitTC(s) ==
    IF s = << >> THEN << << >> >>
    ELSE LET rest == SplitTC(Tail(s))
         IN  IF Head(s) \in {":", ";", "."}
             THEN << << >> >> \o rest
             ELSE << <<Head(s)>> \o Head(rest) >> \o Tail(rest)

\* int(part) succeeds: a non-empty run of decimal digits.
IsInt(part) == part # << >> /\ \A i \in 1..Len(part) : part[i] \in Digits

RECURSIVE IntOf(_)
IntOf(part) ==
    IF part = << >> THEN 0
    ELSE 10 * IntOf(SubSeq(part, 1, Len(part) - 1)) + DigitVal(part[Len(part)])

\* Timecode(fps, text) returns: text has four integer fields.  Otherwise the
\* constructor raises (IndexError, ValueError, or AttributeError on a NaN).
tc_valid(text) ==
    LET bfr == SplitTC(text)
    IN  Len(bfr) >= 4 /\ \A i \in 1..4 : IsInt(bfr[i])

\* Timecode.tc_to_frames at a non-drop frame rate: frames count from 1.
tc_to_frames(text) ==
    LET bfr == SplitTC(text)
    IN  fps * (3600 * IntOf(bfr[1]) + 60 * IntOf(bfr[2]) + IntOf(bfr[3]))
          + IntOf(bfr[4]) + 1

\* Timecode.__sub__ of two frame counts: Timecode(fps, frames=n), whose
\* frames setter raises ValueError unless n > 0.  Releases of the package
\* differ in n: the difference, or its absolute value (absSub); the
\* repository pins no release, so the run has either.
\* The result is <<raises, frames>>.
tc_sub(a, b, absSub) ==
    LET d == a - b
        n == IF absSub /\ d < 0 THEN 0 - d ELSE d
    IN  IF n <= 0 THEN <<TRUE, 0>> ELSE <<FALSE, n>>

\* Mutant: the operands of the difference are swapped.
get_tc_delta_swapped(row, absSub) ==
    IF ~tc_valid(row.RecordIn) \/ ~tc_valid(row.RecordOut)
    THEN <<"raise", 0>>
    ELSE LET record_in == tc_to_frames(row.RecordIn)
             record_out == tc_to_frames(row.RecordOut)
             delta == tc_sub(record_in, record_out, absSub)
         IN  IF delta[1] THEN <<"issue", 0>> ELSE <<"ok", delta[2]>>

(***************************************************************************)
(* get_tc_delta(row): <<outcome, delta>>, outcome "raise" when the call    *)
(* ends in an exception, "issue" when it returns after setting             *)
(* flag_duration_issue, "ok" otherwise.  A Timecode delta is its frames.   *)
(***************************************************************************)
get_tc_delta(row, absSub) ==
    IF ~tc_valid(row.RecordIn) \/ ~tc_valid(row.RecordOut)
    THEN <<"raise", 0>>
    ELSE LET record_in == tc_to_frames(row.RecordIn)
             record_out == tc_to_frames(row.RecordOut)
             delta == tc_sub(record_out, record_in, absSub)
         IN  IF delta[1] THEN <<"issue", 0>> ELSE <<"ok", delta[2]>>

(***************************************************************************)
(* DataFrames.  A DataFrame is [columns, rows]; a row carries its index    *)
(* label (index, here counted from 1).  The fields eidx, midx and jidx of  *)
(* a joined row are history: the index labels of the edit row and of the   *)
(* media row (0: none) it was merged from, and its label in the merge      *)
(* output.  No operation of the program reads them.                        *)
(***************************************************************************)
\* pd.read_csv: the rows of the file under a fresh RangeIndex.
read_csv(file) ==
    [columns |-> file.columns,
     rows |-> [i \in 1..Len(file.rows) |-> [index |-> i] @@ file.rows[i]]]

NoFrame == [columns |-> {}, rows |-> << >>]

\* Mutant: a Name is ignored only when it is an entry of the list.
NameNotIgnored_exact(r) == ~isin(r.Name, EDIT_ROWS_TO_IGNORE)

\* prepare_edit's three row filters, in the order of the code.
NameNotNa(r) == r.Name # NaNText
NameNotIgnored(r) == ~str_contains(r.Name, EDIT_ROWS_TO_IGNORE)
TrackNotExcluded(r) == ~isin(r.V, EDIT_TRACKS_TO_EXCLUDE)

prepare_edit(e) ==
    LET e1 == SelectSeq(e.rows, NameNotNa)
        e2 == SelectSeq(e1, NameNotIgnored)
        e3 == SelectSeq(e2, TrackNotExcluded)
    IN  [columns |-> EDIT_COLUMNS_TO_KEEP, rows |-> e3]

\* prepare_edit raises: a column of EDIT_COLUMNS_TO_KEEP is missing
\* (KeyError), or the Name column holds no text at all and so is a float
\* column without a .str accessor (AttributeError).
prepare_edit_raises(e) ==
    \/ ~(EDIT_COLUMNS_TO_KEEP \subseteq e.columns)
    \/ /\ e.rows # << >>
       /\ \A i \in 1..Len(e.rows) : e.rows[i].Name = NaNText

\* prepare_media's row: the renamed columns, Extension and the stripped Name.
MediaRow(r) ==
    [index |-> r.index,
     Name |-> splitext(r.FileName)[1],
     Source |-> r.Take,
     Reference |-> r.Scene,
     Fonds |-> r.Camera,
     Comments |-> r.Comments,
     Keywords |-> r.Keywords,
     Extension |-> Remove(splitext(r.FileName)[2], ".")]

prepare_media(m) ==
    [columns |-> {"Name", "Source", "Fonds", "Reference", "Comments",
                  "Keywords", "Extension"},
     rows |-> [i \in 1..Len(m.rows) |-> MediaRow(m.rows[i])]]

\* prepare_media raises: a column of MEDIA_COLUMNS_TO_KEEP is missing
\* (KeyError), or a File Name is null (os.path.splitext of a float).
prepare_media_raises(m) ==
    \/ ~(MEDIA_COLUMNS_TO_KEEP \subseteq m.columns)
    \/ \E i \in 1..Len(m.rows) : m.rows[i].FileName = NaNText

\* One row of pd.merge(edit, media, on='Name', how='left'): the edit row e
\* with the media row m, or with nulls when m is no row (NoMatch).
NoMatch ==
    [index |-> 0, Source |-> NaN, Reference |-> NaN, Fonds |-> NaN,
     Comments |-> NaN, Keywords |-> NaN, Extension |-> NaNText]

MergedRow(e, m) ==
    [index |-> 0, jidx |-> 0, eidx |-> e.index, midx |-> m.index,
     Name |-> e.Name, RecordIn |-> e.RecordIn, RecordOut |-> e.RecordOut,
     V |-> e.V, Source |-> m.Source, Reference |-> m.Reference,
     Fonds |-> m.Fonds, Comments |-> m.Comments, Keywords |-> m.Keywords,
     Extension |-> m.Extension]

\* Mutant: the last media row of equal Name wins.
MergeOne_last(e, right) ==
    LET SameName(m) == m.Name = e.Name
        hits == SelectSeq(right, SameName)
    IN  IF hits = << >> THEN <<MergedRow(e, NoMatch)>>
        ELSE <<MergedRow(e, hits[Len(hits)])>>

\* The rows the left row e yields: one per right row of equal Name, in the
\* order of the right table; one row of nulls when there is none.
MergeOne(e, right) ==
    LET SameName(m) == m.Name = e.Name
        hits == SelectSeq(right, SameName)
    IN  IF hits = << >> THEN <<MergedRow(e, NoMatch)>>
        ELSE [k \in 1..Len(hits) |-> MergedRow(e, hits[k])]

RECURSIVE MergeRows(_, _)
MergeRows(left, right) ==
    IF left = << >> THEN << >>
    ELSE MergeOne(Head(left), right) \o MergeRows(Tail(left), right)

\* pd.merge(self.edit, self.media, on='Name', how='left'): the left order is
\* kept and the output gets a fresh RangeIndex.
merge(left, right) ==
    LET rows == MergeRows(left.rows, right.rows)
    IN  [i \in 1..Len(rows) |-> [rows[i] EXCEPT !.index = i, !.jidx = i]]

\* Mutant: no Source is ignored.
SourceNotIgnored_off(r) == TRUE

\* The row filters of join_tables.
SourceNotIgnored(r) == ~isin(r.Source, MEDIA_SOURCES_TO_IGNORE)
SourceIsNull(r) == r.Source = NaN
SourceNotNa(r) == r.Source # NaN

\* edl.sort_values('Record In'): ascending in str order.  The frames of this
\* model have fewer than 16 rows, where the default sort is an insertion
\* sort, so equal keys keep their order.
RECURSIVE InsertSorted(_, _)
InsertSorted(r, rows) ==
    IF rows = << >> THEN <<r>>
    ELSE IF StrLess(r.RecordIn, Head(rows).RecordIn)
         THEN <<r>> \o rows
         ELSE <<Head(rows)>> \o InsertSorted(r, Tail(rows))

RECURSIVE sort_values(_)
sort_values(rows) ==
    IF rows = << >> THEN << >>
    ELSE InsertSorted(rows[Len(rows)],
                      sort_values(SubSeq(rows, 1, Len(rows) - 1)))

(***************************************************************************)
(* The state of a run.                                                     *)
(***************************************************************************)
VARIABLES
    pc,             \* the stage of __init__ that runs next; "done"; "aborted"
    failed_at,      \* the stage whose exception ended the run, or "none"
    media_csv,      \* the file MediaPool.csv: [status, columns, rows]
    edit_csv,       \* the file Montage.csv: [status, columns, rows]
    timecode_abs,   \* the installed timecode release subtracts with abs()
    media,          \* self.media
    edit,           \* self.edit
    joined,         \* join_tables' edl right after pd.merge (history)
    edl,            \* self.edl, rows only
    edl_no_source,  \* self.edl_no_source, rows only
    exist_clips_with_null_source,
    flag_duration_issue,
    files           \* the output files written so far

vars ==
    <<pc, failed_at, media_csv, edit_csv, timecode_abs, media, edit, joined,
      edl, edl_no_source, exist_clips_with_null_source, flag_duration_issue,
      files>>

\* Mutant: the timeline information is shown after the export.
StageAfter_info_last(stage) ==
    CASE stage = "read_files" -> "prepare_edit"
      [] stage = "prepare_edit" -> "prepare_media"
      [] stage = "prepare_media" -> "show_filetypes"
      [] stage = "show_filetypes" -> "join_tables"
      [] stage = "join_tables" -> "write_file"
      [] stage = "write_file" -> "show_info"
      [] stage = "show_info" -> "show_tracks"
      [] stage = "show_tracks" -> "show_stats"
      [] stage = "show_stats" -> "cleanup"
      [] stage = "cleanup" -> "done"

\* The calls of __init__, in order.
StageAfter(stage) ==
    CASE stage = "read_files" -> "show_info"
      [] stage = "show_info" -> "show_tracks"
      [] stage = "show_tracks" -> "prepare_edit"
      [] stage = "prepare_edit" -> "prepare_media"
      [] stage = "prepare_media" -> "show_filetypes"
      [] stage = "show_filetypes" -> "join_tables"
      [] stage = "join_tables" -> "write_file"
      [] stage = "write_file" -> "show_stats"
      [] stage = "show_stats" -> "cleanup"
      [] stage = "cleanup" -> "done"

\* An exception no stage handles ends the run where it is raised.
Raise(stage) ==
    /\ pc' = "aborted"
    /\ failed_at' = stage

Return(stage) ==
    /\ pc' = StageAfter(stage)
    /\ failed_at' = failed_at

(***************************************************************************)
(* read_files: the media pool first, then the edit index.  A file that is  *)
(* missing or not in the expected encoding raises.                         *)
(***************************************************************************)
ReadFiles ==
    /\ pc = "read_files"
    /\ IF media_csv.status # "ok"
       THEN Raise("read_files") /\ UNCHANGED <<media, edit>>
       ELSE IF edit_csv.status # "ok"
       THEN Raise("read_files") /\ media' = read_csv(media_csv)
                                /\ UNCHANGED edit
       ELSE /\ Return("read_files")
            /\ media' = read_csv(media_csv)
            /\ edit' = read_csv(edit_csv)
    /\ UNCHANGED <<media_csv, edit_csv, timecode_abs, joined, edl,
                   edl_no_source, exist_clips_with_null_source,
                   flag_duration_issue, files>>

(***************************************************************************)
(* show_info: the timeline's length from the first Record In and the last  *)
(* Record Out of the edit index as read.  Nothing handles its exceptions:  *)
(* an empty table (iloc[0]), a missing column, a malformed timecode, a     *)
(* difference the timecode package refuses.                                *)
(***************************************************************************)
show_info_raises(e, absSub) ==
    \/ e.rows = << >>
    \/ ~({"Record In", "Record Out"} \subseteq e.columns)
    \/ LET first == e.rows[1].RecordIn
           last == e.rows[Len(e.rows)].RecordOut
       IN  \/ ~tc_valid(first)
           \/ ~tc_valid(last)
           \/ tc_sub(tc_to_frames(last), tc_to_frames(first), absSub)[1]

ShowInfo ==
    /\ pc = "show_info"
    /\ IF show_info_raises(edit, timecode_abs)
       THEN Raise("show_info")
       ELSE Return("show_info")
    /\ UNCHANGED <<media_csv, edit_csv, timecode_abs, media, edit, joined,
                   edl, edl_no_source, exist_clips_with_null_source,
                   flag_duration_issue, files>>

(***************************************************************************)
(* show_tracks: the tracks in use, V and A apart, each sorted by the       *)
(* number after its first character (int(x[1:]) raises on anything else).  *)
(***************************************************************************)
show_tracks_raises(e) ==
    \/ ~("V" \in e.columns)
    \/ \E i \in 1..Len(e.rows) :
          LET t == e.rows[i].V
          IN  /\ t # NaNText
              /\ t[1] \in {"V", "A"}
              /\ ~IsInt(Tail(t))

ShowTracks ==
    /\ pc = "show_tracks"
    /\ IF show_tracks_raises(edit)
       THEN Raise("show_tracks")
       ELSE Return("show_tracks")
    /\ UNCHANGED <<media_csv, edit_csv, timecode_abs, media, edit, joined,
                   edl, edl_no_source, exist_clips_with_null_source,
                   flag_duration_issue, files>>

PrepareEdit ==
    /\ pc = "prepare_edit"
    /\ IF prepare_edit_raises(edit)
       THEN Raise("prepare_edit") /\ UNCHANGED edit
       ELSE Return("prepare_edit") /\ edit' = prepare_edit(edit)
    /\ UNCHANGED <<media_csv, edit_csv, timecode_abs, media, joined, edl,
                   edl_no_source, exist_clips_with_null_source,
                   flag_duration_issue, files>>

PrepareMedia ==
    /\ pc = "prepare_media"
    /\ IF prepare_media_raises(media)
       THEN Raise("prepare_media") /\ UNCHANGED media
       ELSE Return("prepare_media") /\ media' = prepare_media(media)
    /\ UNCHANGED <<media_csv, edit_csv, timecode_abs, edit, joined, edl,
                   edl_no_source, exist_clips_with_null_source,
                   flag_duration_issue, files>>

\* show_filetypes prints the counts of media['Extension'].
ShowFiletypes ==
    /\ pc = "show_filetypes"
    /\ Return("show_filetypes")
    /\ UNCHANGED <<media_csv, edit_csv, timecode_abs, media, edit, joined,
                   edl, edl_no_source, exist_clips_with_null_source,
                   flag_duration_issue, files>>

(***************************************************************************)
(* join_tables.                                                            *)
(***************************************************************************)
\* Mutant: the ignore-list filter also drops the rows without Source.
kept_rows_drop_null(j) ==
    LET Keep(r) == r.Source # NaN /\ ~isin(r.Source, MEDIA_SOURCES_TO_IGNORE)
    IN  SelectSeq(j, Keep)

\* The rows of edl after the ignore-list filter.
kept_rows(j) == SelectSeq(j, SourceNotIgnored)

\* self.edl_no_source.
no_source_rows(j) == SelectSeq(kept_rows(j), SourceIsNull)

\* Mutant: the rows without Source stay in edl.
primary_rows_keep_null(j) == kept_rows(j)

\* edl after the rows without Source were dropped: the code drops them only
\* when there are any.
primary_rows(j) ==
    IF Len(no_source_rows(j)) > 0
    THEN SelectSeq(kept_rows(j), SourceNotNa)
    ELSE kept_rows(j)

\* edl.apply(get_tc_delta, axis='columns') calls get_tc_delta row by row and
\* stops at the first call that raises: the position of that row, or 0.
first_raise(rows, absSub) ==
    LET bad == {i \in 1..Len(rows) : get_tc_delta(rows[i], absSub)[1] = "raise"}
    IN  IF bad = {} THEN 0 ELSE CHOOSE i \in bad : \A k \in bad : i <= k

\* flag_duration_issue after the calls made: some call before the stop set it.
duration_issue(rows, absSub) ==
    LET stop == first_raise(rows, absSub)
        last == IF stop = 0 THEN Len(rows) ELSE stop - 1
    IN  \E i \in 1..last : get_tc_delta(rows[i], absSub)[1] = "issue"

\* edl['Track']: x[0] of a null V is a TypeError.
track_raises(rows) == \E i \in 1..Len(rows) : rows[i].V = NaNText

\* The row with its Duration and Track columns, under the index label that
\* reset_index(drop=True) gives it.
FinishedRow(r, i, absSub) ==
    [index |-> i, Duration |-> get_tc_delta(r, absSub)[2],
     Track |-> IF r.V[1] = "A" THEN "AUDIO" ELSE ""] @@ r

finish_rows(rows, absSub) ==
    sort_values([i \in 1..Len(rows) |-> FinishedRow(rows[i], i, absSub)])

\* On an empty edl, apply returns an empty DataFrame, and pandas releases
\* refuse to store it as the one column Duration (ValueError); the model
\* leaves open whether the installed release does (emptyRaises).
JoinTables ==
    /\ pc = "join_tables"
    /\ LET j == merge(edit, media)
           primary == primary_rows(j)
       IN  /\ joined' = j
           /\ edl_no_source' = no_source_rows(j)
           /\ exist_clips_with_null_source' =
                 (exist_clips_with_null_source \/ Len(no_source_rows(j)) > 0)
           /\ flag_duration_issue' =
                 (flag_duration_issue \/ duration_issue(primary, timecode_abs))
           /\ \E emptyRaises \in BOOLEAN :
                 IF \/ primary = << >> /\ emptyRaises
                    \/ first_raise(primary, timecode_abs) # 0
                    \/ track_raises(primary)
                 THEN Raise("join_tables") /\ UNCHANGED edl
                 ELSE /\ Return("join_tables")
                      /\ edl' = finish_rows(primary, timecode_abs)
    /\ UNCHANGED <<media_csv, edit_csv, timecode_abs, media, edit, files>>

\* Mutant: the no-source file is written whatever the flag.
WriteFile_always ==
    /\ pc = "write_file"
    /\ Return("write_file")
    /\ files' = files \cup {PrimaryFile, NoSourceFile}
    /\ UNCHANGED <<media_csv, edit_csv, timecode_abs, media, edit, joined,
                   edl, edl_no_source, exist_clips_with_null_source,
                   flag_duration_issue>>

(***************************************************************************)
(* write_file: the primary table, then the no-source table if the flag is  *)
(* set.  Each to_excel may fail (w1, w2: the file system's answer).        *)
(***************************************************************************)
WriteFile ==
    /\ pc = "write_file"
    /\ \E w1 \in BOOLEAN, w2 \in BOOLEAN :
          IF ~w1
          THEN Raise("write_file") /\ UNCHANGED files
          ELSE IF exist_clips_with_null_source /\ ~w2
          THEN Raise("write_file") /\ files' = files \cup {PrimaryFile}
          ELSE /\ Return("write_file")
               /\ files' = files \cup {PrimaryFile} \cup
                     (IF exist_clips_with_null_source
                      THEN {NoSourceFile} ELSE {})
    /\ UNCHANGED <<media_csv, edit_csv, timecode_abs, media, edit, joined,
                   edl, edl_no_source, exist_clips_with_null_source,
                   flag_duration_issue>>

\* show_stats prints self.edl and its describe().
ShowStats ==
    /\ pc = "show_stats"
    /\ Return("show_stats")
    /\ UNCHANGED <<media_csv, edit_csv, timecode_abs, media, edit, joined,
                   edl, edl_no_source, exist_clips_with_null_source,
                   flag_duration_issue, files>>

Cleanup ==
    /\ pc = "cleanup"
    /\ Return("cleanup")
    /\ UNCHANGED <<media_csv, edit_csv, timecode_abs, media, edit, joined,
                   edl, edl_no_source, exist_clips_with_null_source,
                   flag_duration_issue, files>>

Next ==
    \/ ReadFiles
    \/ ShowInfo
    \/ ShowTracks
    \/ PrepareEdit
    \/ PrepareMedia
    \/ ShowFiletypes
    \/ JoinTables
    \/ WriteFile
    \/ ShowStats
    \/ Cleanup

(***************************************************************************)
(* The inputs.  A csv file is [status, columns, rows]; status is "ok",     *)
(* "missing" or "undecodable".  The rows are drawn from the small sets     *)
(* below, one family of inputs per group of properties.                    *)
(***************************************************************************)
EditFileColumns == EDIT_COLUMNS_TO_KEEP \cup {"#", "Reel"}
MediaFileColumns == MEDIA_COLUMNS_TO_KEEP \cup {"Resolution", "FPS"}

Tables(S, n) == UNION {[1..k -> S] : k \in 0..n}

EditRow(name, in, out, v) ==
    [Name |-> name, RecordIn |-> in, RecordOut |-> out, V |-> v]

MediaFileRow(file, take, scene) ==
    [FileName |-> file, Take |-> take, Camera |-> "B", Scene |-> scene,
     Comments |-> "ok", Keywords |-> "itw"]

OkFile(columns, rows) == [status |-> "ok", columns |-> columns, rows |-> rows]

\* Clip names and file names.
Clip_01 == <<"C", "l", "i", "p", "_", "0", "1">>
clip_01 == <<"c", "l", "i", "p", "_", "0", "1">>
Clip_02 == <<"C", "l", "i", "p", "_", "0", "2">>
Clip_03 == <<"C", "l", "i", "p", ".", "0", "3">>
TitleClip == <<"M", "y", " ", "F", "u", "s", "i", "o", "n", " ", "T", "i", "t", "l", "e", " ", "2">>
TitleLower == <<"f", "u", "s", "i", "o", "n", " ", "t", "i", "t", "l", "e">>
SolidColor == <<"S", "o", "l", "i", "d", " ", "C", "o", "l", "o", "r">>
Clip_01_mov == <<"C", "l", "i", "p", "_", "0", "1", ".", "m", "o", "v">>
Clip_01_wav == <<"C", "l", "i", "p", "_", "0", "1", ".", "w", "a", "v">>
clip_01_mov == <<"c", "l", "i", "p", "_", "0", "1", ".", "m", "o", "v">>
Clip_03_mov == <<"C", "l", "i", "p", ".", "0", "3", ".", "m", "o", "v">>

\* Tracks.
V1 == <<"V", "1">>
V9 == <<"V", "9">>
V12 == <<"V", "1", "2">>
A1 == <<"A", "1">>
A5 == <<"A", "5">>

\* Timecodes.
T_00_59_59_24 == <<"0", "0", ":", "5", "9", ":", "5", "9", ":", "2", "4">>
T_01_00_00_00 == <<"0", "1", ":", "0", "0", ":", "0", "0", ":", "0", "0">>
T_01_00_02_00 == <<"0", "1", ":", "0", "0", ":", "0", "2", ":", "0", "0">>
T_01_00_03_00 == <<"0", "1", ":", "0", "0", ":", "0", "3", ":", "0", "0">>
T_01_00_04_00 == <<"0", "1", ":", "0", "0", ":", "0", "4", ":", "0", "0">>
T_01_00_05_00 == <<"0", "1", ":", "0", "0", ":", "0", "5", ":", "0", "0">>
T_9_00_00_00 == <<"9", ":", "0", "0", ":", "0", "0", ":", "0", "0">>
T_9_00_01_00 == <<"9", ":", "0", "0", ":", "0", "1", ":", "0", "0">>
T_10_00_00_00 == <<"1", "0", ":", "0", "0", ":", "0", "0", ":", "0", "0">>
T_10_00_01_00 == <<"1", "0", ":", "0", "0", ":", "0", "1", ":", "0", "0">>
T_BadField == <<"0", "1", ":", "0", "0", ":", "x", "x", ":", "0", "0">>
T_ThreeFields == <<"0", "1", ":", "0", "0", ":", "0", "6">>

Clip(name, v) == EditRow(name, T_01_00_00_00, T_01_00_02_00, v)

\* Rows for the row filters of prepare_edit.
FilterEditRows ==
    {Clip(NaNText, V1), Clip(Clip_01, V1), Clip(Clip_01, V9),
     Clip(Clip_01, A1), Clip(Clip_02, A5), Clip(Clip_02, V12),
     Clip(TitleClip, V1), Clip(TitleLower, V1), Clip(SolidColor, A1)}

FilterMediaRows == {MediaFileRow(Clip_01_mov, "3", "12")}

\* Rows for the join and the split by Source.
JoinEditRows ==
    {Clip(Clip_01, V1), Clip(Clip_01, A1), Clip(clip_01, V1),
     Clip(Clip_02, V1), Clip(Clip_03, A1)}

JoinMediaRows ==
    {MediaFileRow(Clip_01_mov, "3", "12"),
     MediaFileRow(Clip_01_wav, "Tournage", "12"),
     MediaFileRow(Clip_01, NaN, "7"),
     MediaFileRow(clip_01_mov, "Musique Bibliothèque", NaN),
     MediaFileRow(Clip_03_mov, "Musique Tal", "7")}

\* Rows for the durations and the sort.
TimecodeEditRows ==
    {EditRow(Clip_01, T_01_00_00_00, T_01_00_02_00, V1),
     EditRow(Clip_01, T_00_59_59_24, T_01_00_00_00, V1),
     EditRow(Clip_01, T_01_00_03_00, T_01_00_03_00, V1),
     EditRow(Clip_01, T_01_00_05_00, T_01_00_04_00, V1),
     EditRow(Clip_01, T_9_00_00_00, T_9_00_01_00, V1),
     EditRow(Clip_01, T_10_00_00_00, T_10_00_01_00, A1),
     EditRow(Clip_01, T_BadField, T_01_00_05_00, V1),
     EditRow(Clip_01, T_01_00_02_00, T_ThreeFields, V1),
     EditRow(Clip_02, T_BadField, T_01_00_05_00, V1)}

\* Rows and files for the fatal errors.
IOEditRows == {Clip(Clip_01, V1), Clip(Clip_02, A1)}
IOMediaRows == {MediaFileRow(Clip_01_mov, "3", "12")}
IOEditColumns ==
    {EditFileColumns} \cup {EditFileColumns \ {c} : c \in EDIT_COLUMNS_TO_KEEP}
IOMediaColumns ==
    {MediaFileColumns, MediaFileColumns \ {"Take"},
     MediaFileColumns \ {"File Name"}}
FileStatus == {"ok", "missing", "undecodable"}

\* The state __init__ sets up before its first call.
Start ==
    /\ pc = "read_files"
    /\ failed_at = "none"
    /\ media = NoFrame
    /\ edit = NoFrame
    /\ joined = << >>
    /\ edl = << >>
    /\ edl_no_source = << >>
    /\ exist_clips_with_null_source = FALSE
    /\ flag_duration_issue = FALSE
    /\ files = {}

InitFilter ==
    /\ Start
    /\ timecode_abs = FALSE
    /\ edit_csv \in {OkFile(EditFileColumns, rows) :
                        rows \in Tables(FilterEditRows, MaxEdit)}
    /\ media_csv \in {OkFile(MediaFileColumns, rows) :
                        rows \in Tables(FilterMediaRows, MaxMedia)}

InitJoin ==
    /\ Start
    /\ timecode_abs = FALSE
    /\ edit_csv \in {OkFile(EditFileColumns, rows) :
                        rows \in Tables(JoinEditRows, MaxEdit)}
    /\ media_csv \in {OkFile(MediaFileColumns, rows) :
                        rows \in Tables(JoinMediaRows, MaxMedia)}

InitTimecode ==
    /\ Start
    /\ timecode_abs \in BOOLEAN
    /\ edit_csv \in {OkFile(EditFileColumns, rows) :
                        rows \in Tables(TimecodeEditRows, MaxEdit)}
    /\ media_csv = OkFile(MediaFileColumns, <<MediaFileRow(Clip_01_mov, "3", "12")>>)

InitIO ==
    /\ Start
    /\ timecode_abs = FALSE
    /\ edit_csv \in [status : FileStatus, columns : IOEditColumns,
                     rows : Tables(IOEditRows, MaxEdit)]
    /\ media_csv \in [status : FileStatus, columns : IOMediaColumns,
                      rows : Tables(IOMediaRows, MaxMedia)]

Init == InitFilter \/ InitJoin \/ InitTimecode \/ InitIO

\* One specification per family of inputs, and Spec for all of them.
SpecFilter == InitFilter /\ [][Next]_vars
SpecJoin == InitJoin /\ [][Next]_vars
SpecTimecode == InitTimecode /\ [][Next]_vars
SpecIO == InitIO /\ [][Next]_vars
Spec == Init /\ [][Next]_vars

(***************************************************************************)
(* Vocabulary of the properties.                                           *)
(***************************************************************************)
\* prepare_edit has returned.
EditPrepared ==
    \/ pc \in {"prepare_media", "show_filetypes", "join_tables", "write_file",
               "show_stats", "cleanup", "done"}
    \/ pc = "aborted"
         /\ failed_at \in {"prepare_media", "join_tables", "write_file"}

\* join_tables has made its merge and its split (it may have raised later).
Merged ==
    \/ pc \in {"write_file", "show_stats", "cleanup", "done"}
    \/ pc = "aborted" /\ failed_at \in {"join_tables", "write_file"}

\* join_tables has returned.
AfterJoin ==
    \/ pc \in {"write_file", "show_stats", "cleanup", "done"}
    \/ pc = "aborted" /\ failed_at = "write_file"

\* write_file has returned.
AfterWrite == pc \in {"show_stats", "cleanup", "done"}

Range(seq) == {seq[i] : i \in 1..Len(seq)}
IgnoredSources == Range(MEDIA_SOURCES_TO_IGNORE)
Markers == Range(EDIT_ROWS_TO_IGNORE)
ExcludedTracks == Range(EDIT_TRACKS_TO_EXCLUDE)

\* The merge labels of the rows of a result set.
Labels(rows) == {rows[i].jidx : i \in 1..Len(rows)}
NoLabelTwice(rows) ==
    \A i, k \in 1..Len(rows) : rows[i].jidx = rows[k].jidx => i = k

\* A result row is the joined row of its label, in every column of the merge.
MergeColumns ==
    {"Name", "RecordIn", "RecordOut", "V", "Source", "Reference", "Fonds",
     "Comments", "Keywords", "Extension", "eidx", "midx"}
SameAsJoined(r) ==
    /\ r.jidx \in 1..Len(joined)
    /\ \A c \in MergeColumns : r[c] = joined[r.jidx][c]

(***************************************************************************)
(* C1.  After join_tables, every row of edl_no_source has a null Source    *)
(* and no row of edl has a null Source.                                    *)
(***************************************************************************)
C1_SourcePartition ==
    /\ Merged => \A i \in 1..Len(edl_no_source) : edl_no_source[i].Source = NaN
    /\ AfterJoin => \A i \in 1..Len(edl) : edl[i].Source # NaN

\* Both result sets have rows, one of the no-source rows being a clip whose
\* media row exists and has no Take.
C1_Witness ==
    /\ AfterJoin
    /\ edl # << >>
    /\ \E i \in 1..Len(edl_no_source) : edl_no_source[i].midx # 0
    /\ \E i \in 1..Len(edl_no_source) : edl_no_source[i].midx = 0

(***************************************************************************)
(* C4.  As claimed: edl and edl_no_source are disjoint, hold no row twice, *)
(* and together are all the rows of the left join.  The code drops the     *)
(* rows whose Source is on MEDIA_SOURCES_TO_IGNORE before the split, so    *)
(* the claimed union fails.                                                *)
(***************************************************************************)
C4_Original ==
    AfterJoin =>
        /\ Labels(edl) \cap Labels(edl_no_source) = {}
        /\ NoLabelTwice(edl) /\ NoLabelTwice(edl_no_source)
        /\ Labels(edl) \cup Labels(edl_no_source) = 1..Len(joined)

(***************************************************************************)
(* C4, amended.  After join_tables, edl and edl_no_source are disjoint,    *)
(* hold no row twice, each of their rows is a row of the left join         *)
(* unchanged, and together they are exactly the rows of the left join      *)
(* whose Source is not on MEDIA_SOURCES_TO_IGNORE.                         *)
(***************************************************************************)
C4_PartitionOfKeptRows ==
    AfterJoin =>
        /\ Labels(edl) \cap Labels(edl_no_source) = {}
        /\ NoLabelTwice(edl) /\ NoLabelTwice(edl_no_source)
        /\ \A i \in 1..Len(edl) : SameAsJoined(edl[i])
        /\ \A i \in 1..Len(edl_no_source) : SameAsJoined(edl_no_source[i])
        /\ Labels(edl) \cup Labels(edl_no_source) =
              {k \in 1..Len(joined) : joined[k].Source \notin IgnoredSources}

\* The join has a row for each fate: kept with a Source, kept without one,
\* dropped for its Source.
C4_Witness ==
    /\ AfterJoin
    /\ edl # << >>
    /\ edl_no_source # << >>
    /\ \E k \in 1..Len(joined) : joined[k].Source \in IgnoredSources

(***************************************************************************)
(* C9.  A joined row whose Source is on MEDIA_SOURCES_TO_IGNORE is in      *)
(* neither edl nor edl_no_source, and no row of edl_no_source stems from   *)
(* a joined row that had a Source.                                         *)
(***************************************************************************)
C9_IgnoredSourcesDropped ==
    /\ Merged =>
          \A i \in 1..Len(edl_no_source) :
              /\ edl_no_source[i].jidx \in 1..Len(joined)
              /\ joined[edl_no_source[i].jidx].Source = NaN
    /\ AfterJoin =>
          \A k \in 1..Len(joined) :
              joined[k].Source \in IgnoredSources =>
                  /\ k \notin Labels(edl) \cup Labels(edl_no_source)
                  /\ \A i \in 1..Len(edl) : edl[i].Source # joined[k].Source

\* An ignored row was joined to a clip that appears in no output at all,
\* while another clip is in the primary output.
C9_Witness ==
    /\ AfterJoin
    /\ edl # << >>
    /\ \E k \in 1..Len(joined) :
          /\ joined[k].Source \in IgnoredSources
          /\ \A i \in 1..Len(edl) : edl[i].eidx # joined[k].eidx
          /\ \A i \in 1..Len(edl_no_source) :
                edl_no_source[i].eidx # joined[k].eidx

(***************************************************************************)
(* C8.  exist_clips_with_null_source is set exactly when edl_no_source has *)
(* a row; the no-source file is written only then, and after the primary   *)
(* file; a write_file that returns has written the primary file, and the   *)
(* no-source file exactly when edl_no_source has a row.                    *)
(***************************************************************************)
C8_NoSourceFileIffRows ==
    /\ Merged => (exist_clips_with_null_source <=> Len(edl_no_source) > 0)
    /\ NoSourceFile \in files =>
          Len(edl_no_source) > 0 /\ PrimaryFile \in files
    /\ AfterWrite =>
          /\ PrimaryFile \in files
          /\ NoSourceFile \in files <=> Len(edl_no_source) > 0

\* A finished run that wrote both files.
C8_Witness ==
    /\ pc = "done"
    /\ files = {PrimaryFile, NoSourceFile}
    /\ edl_no_source # << >>

(***************************************************************************)
(* C10.  The rows of the merge are those of a left outer join of the       *)
(* retained edit rows with the media rows on equal Name, the media Name    *)
(* being the File Name without its extension: every joined row carries the *)
(* columns of one retained edit row; an edit row with k >= 1 media rows of *)
(* equal Name has k joined rows, one per such media row and with its       *)
(* columns; an edit row with none has one joined row, null in every media  *)
(* column, which is in edl_no_source and not in edl.                       *)
(***************************************************************************)
\* The joined rows of the edit row with index label e.
RowsOf(e) == {k \in 1..Len(joined) : joined[k].eidx = e}
\* The media rows whose Name equals that of the edit row at position i.
Matches(i) ==
    {m \in 1..Len(media.rows) : media.rows[m].Name = edit.rows[i].Name}

C10_LeftJoinOnName ==
    Merged =>
        /\ \A m \in 1..Len(media.rows) :
              LET row == media.rows[m]
                  file == media_csv.rows[m].FileName
              IN  /\ row.index = m
                  /\ "." \notin Range(row.Extension)
                  /\ file = IF row.Extension = << >> THEN row.Name
                            ELSE row.Name \o <<".">> \o row.Extension
        /\ \A k \in 1..Len(joined) :
              Cardinality({i \in 1..Len(edit.rows) :
                              edit.rows[i].index = joined[k].eidx}) = 1
        /\ \A i \in 1..Len(edit.rows) :
              LET e == edit.rows[i]
              IN  /\ \A k \in RowsOf(e.index) :
                        /\ joined[k].Name = e.Name
                        /\ joined[k].RecordIn = e.RecordIn
                        /\ joined[k].RecordOut = e.RecordOut
                        /\ joined[k].V = e.V
                  /\ Matches(i) # {} =>
                        /\ Cardinality(RowsOf(e.index)) = Cardinality(Matches(i))
                        /\ \A m \in Matches(i) :
                              \E k \in RowsOf(e.index) :
                                  /\ joined[k].midx = m
                                  /\ joined[k].Source = media.rows[m].Source
                                  /\ joined[k].Reference = media.rows[m].Reference
                                  /\ joined[k].Fonds = media.rows[m].Fonds
                                  /\ joined[k].Comments = media.rows[m].Comments
                                  /\ joined[k].Keywords = media.rows[m].Keywords
                                  /\ joined[k].Extension = media.rows[m].Extension
                  /\ Matches(i) = {} =>
                        /\ Cardinality(RowsOf(e.index)) = 1
                        /\ \A k \in RowsOf(e.index) :
                              /\ joined[k].midx = 0
                              /\ joined[k].Source = NaN
                              /\ joined[k].Reference = NaN
                              /\ joined[k].Fonds = NaN
                              /\ joined[k].Comments = NaN
                              /\ joined[k].Keywords = NaN
                              /\ joined[k].Extension = NaNText
                              /\ AfterJoin =>
                                    /\ k \in Labels(edl_no_source)
                                    /\ k \notin Labels(edl)

\* One clip has two media rows and two joined rows; a clip whose Name
\* differs from theirs in case only has none and is in edl_no_source.
C10_Witness ==
    /\ AfterJoin
    /\ \E i \in 1..Len(edit.rows) :
          /\ Cardinality(Matches(i)) = 2
          /\ Cardinality(RowsOf(edit.rows[i].index)) = 2
    /\ \E i \in 1..Len(edit.rows) :
          /\ edit.rows[i].Name = clip_01
          /\ \E m \in 1..Len(media.rows) : media.rows[m].Name = Clip_01
          /\ \E n \in 1..Len(edl_no_source) :
                edl_no_source[n].eidx = edit.rows[i].index

(***************************************************************************)
(* C5.  The rows of the edit index that prepare_edit keeps are exactly     *)
(* those whose Name is not null, holds no entry of EDIT_ROWS_TO_IGNORE as  *)
(* a substring (case-sensitive), and whose track is not in                 *)
(* EDIT_TRACKS_TO_EXCLUDE; it keeps them unchanged and in their order; a   *)
(* row on a track A* is never dropped for its track; and every row of the  *)
(* merge and of both outputs comes from a kept row.                        *)
(***************************************************************************)
HoldsMarker(name) ==
    \E p \in Markers : \E off \in 0..(Len(name) - Len(p)) :
        \A t \in 1..Len(p) : name[off + t] = p[t]

TakesPart(row) ==
    /\ row.Name # NaNText
    /\ ~HoldsMarker(row.Name)
    /\ row.V \notin ExcludedTracks

C5_EditRowsInJoin ==
    /\ EditPrepared =>
          /\ {edit.rows[i].index : i \in 1..Len(edit.rows)} =
                {n \in 1..Len(edit_csv.rows) : TakesPart(edit_csv.rows[n])}
          /\ \A i \in 1..Len(edit.rows) :
                LET row == edit.rows[i]
                    from == edit_csv.rows[row.index]
                IN  /\ row.Name = from.Name /\ row.V = from.V
                    /\ row.RecordIn = from.RecordIn
                    /\ row.RecordOut = from.RecordOut
          /\ \A i, k \in 1..Len(edit.rows) :
                i < k => edit.rows[i].index < edit.rows[k].index
          /\ \A n \in 1..Len(edit_csv.rows) :
                LET from == edit_csv.rows[n]
                IN  from.Name # NaNText /\ ~HoldsMarker(from.Name)
                       /\ from.V[1] = "A"
                    => \E i \in 1..Len(edit.rows) : edit.rows[i].index = n
    /\ Merged =>
          \A k \in 1..Len(joined) :
              /\ joined[k].eidx \in 1..Len(edit_csv.rows)
              /\ TakesPart(edit_csv.rows[joined[k].eidx])
    /\ AfterJoin =>
          \A r \in Range(edl) \cup Range(edl_no_source) :
              TakesPart(edit_csv.rows[r.eidx])

\* A title clip was dropped for the marker inside its Name and a clip on an
\* audio track was kept, and is in an output.
C5_Witness ==
    /\ AfterJoin
    /\ \E n \in 1..Len(edit_csv.rows) :
          /\ edit_csv.rows[n].Name = TitleClip
          /\ \A i \in 1..Len(edit.rows) : edit.rows[i].index # n
    /\ \E r \in Range(edl) \cup Range(edl_no_source) : r.V[1] = "A"

(***************************************************************************)
(* Timecodes in the properties: the frame count of a well-formed timecode  *)
(* HH:MM:SS:FF at fps frames per second.                                   *)
(***************************************************************************)
WellFormed(row) == tc_valid(row.RecordIn) /\ tc_valid(row.RecordOut)
FramesIn(row) == tc_to_frames(row.RecordIn)
FramesOut(row) == tc_to_frames(row.RecordOut)

\* The rows of the merge that belong to the primary result set.
IsPrimary(row) == row.Source # NaN /\ row.Source \notin IgnoredSources

\* A row whose duration the claim C2 sets to zero.
Unsubtractable(row) ==
    \/ ~WellFormed(row)
    \/ FramesOut(row) < FramesIn(row)

(***************************************************************************)
(* C2.  As claimed: a row of the primary result set whose Record Out       *)
(* precedes its Record In, or with a malformed Record In or Record Out,    *)
(* gets Duration 0 and sets flag_duration_issue; join_tables does not      *)
(* raise on it, the row stays in edl and the other rows get their          *)
(* durations.  The code builds both Timecodes before its try, so a         *)
(* malformed one ends the run.                                             *)
(***************************************************************************)
C2_Original ==
    /\ pc = "aborted" /\ failed_at = "join_tables" =>
          \A k \in 1..Len(joined) :
              IsPrimary(joined[k]) => ~Unsubtractable(joined[k])
    /\ AfterJoin =>
          /\ \A k \in 1..Len(joined) :
                IsPrimary(joined[k]) => k \in Labels(edl)
          /\ \A i \in 1..Len(edl) :
                IF Unsubtractable(edl[i])
                THEN edl[i].Duration = 0 /\ flag_duration_issue
                ELSE edl[i].Duration = FramesOut(edl[i]) - FramesIn(edl[i])

(***************************************************************************)
(* C3.  As claimed: a row of edl with well-formed timecodes and Record Out *)
(* >= Record In has Duration = frames(Record Out) - frames(Record In), and *)
(* does not set flag_duration_issue: the flag is set only if some row of   *)
(* edl is malformed or has Record Out < Record In.  The timecode package   *)
(* refuses a difference of zero frames, so a row with Record Out = Record  *)
(* In sets the flag.                                                       *)
(***************************************************************************)
C3_Original ==
    AfterJoin =>
        /\ \A i \in 1..Len(edl) :
              WellFormed(edl[i]) /\ FramesOut(edl[i]) >= FramesIn(edl[i])
              => edl[i].Duration = FramesOut(edl[i]) - FramesIn(edl[i])
        /\ flag_duration_issue =>
              \E i \in 1..Len(edl) : Unsubtractable(edl[i])

(***************************************************************************)
(* C3, amended.  A row of edl with well-formed timecodes and Record Out >  *)
(* Record In has Duration = frames(Record Out) - frames(Record In) at 25   *)
(* fps and does not set flag_duration_issue; a row with Record Out =       *)
(* Record In has Duration 0, which is that difference, and sets the flag.  *)
(***************************************************************************)
C3_DurationIsFrameDifference ==
    AfterJoin =>
        /\ \A i \in 1..Len(edl) :
              /\ WellFormed(edl[i])
              /\ FramesOut(edl[i]) >= FramesIn(edl[i])
                 => edl[i].Duration = FramesOut(edl[i]) - FramesIn(edl[i])
              /\ FramesOut(edl[i]) = FramesIn(edl[i]) => flag_duration_issue
        /\ flag_duration_issue =>
              \E i \in 1..Len(edl) : FramesOut(edl[i]) <= FramesIn(edl[i])

\* edl holds the clip from 01:00:00:00 to 01:00:02:00 with its 50 frames and
\* a clip of equal Record In and Record Out, which set the flag.
C3_Witness ==
    /\ AfterJoin
    /\ flag_duration_issue
    /\ \E i \in 1..Len(edl) :
          /\ edl[i].RecordIn = T_01_00_00_00
          /\ edl[i].RecordOut = T_01_00_02_00
          /\ edl[i].Duration = 50
    /\ \E i \in 1..Len(edl) :
          edl[i].RecordIn = edl[i].RecordOut /\ edl[i].Duration = 0

(***************************************************************************)
(* C6.  As claimed: the rows of edl are in non-decreasing order of the     *)
(* frame count of Record In.  The code sorts the column as text, which is  *)
(* another order when the timecodes are not zero-padded to one width.      *)
(***************************************************************************)
C6_Original ==
    AfterJoin =>
        \A i, k \in 1..Len(edl) :
            i < k => FramesIn(edl[i]) <= FramesIn(edl[k])

(***************************************************************************)
(* C7.  As claimed: a run that ends in an unhandled exception has written  *)
(* no output file.  write_file writes the primary file before the          *)
(* no-source file, so a failure of the second to_excel leaves the first    *)
(* file written.                                                           *)
(***************************************************************************)
C7_Original == pc = "aborted" => files = {}

(***************************************************************************)
(* C7, amended.  A run that ends in an exception raised before write_file  *)
(* (by read_files, show_info, show_tracks, prepare_edit, prepare_media or  *)
(* join_tables: a missing or undecodable input file, a missing column, any *)
(* other exception of these stages) has written no output file, and no     *)
(* file is written before write_file runs; a run that ends in an exception *)
(* of write_file has written at most the primary file.                     *)
(***************************************************************************)
C7_NoOutputBeforeWriteFile ==
    /\ pc \notin {"show_stats", "cleanup", "done", "aborted"} => files = {}
    /\ pc = "aborted" =>
          /\ failed_at # "write_file" => files = {}
          /\ files \subseteq {PrimaryFile}

\* The edit index lacks a column and the run ended in prepare_edit, after
\* both files were read, with nothing written.
C7_Witness ==
    /\ pc = "aborted"
    /\ failed_at = "prepare_edit"
    /\ media.rows # << >>
    /\ ~(EDIT_COLUMNS_TO_KEEP \subseteq edit_csv.columns)
    /\ files = {}

====
